---- MODULE Spec2Model ----
(***************************************************************************)
(* Model of the schema synchronizer (storages.TableHelper) and of the      *)
(* Postgres storage writer (storages.Postgres) of eventnative.             *)
(*                                                                         *)
(* Callers are goroutines.  Goroutines of one process share one            *)
(* TableHelper, hence one th.tables map and the *schema.Table objects it   *)
(* points to; processes share the destination tables and the               *)
(* MonitorKeeper (locks and version counters).  Every step of a caller is  *)
(* one port call or one access to the shared cache.                        *)
(***************************************************************************)
EXTENDS Naturals, FiniteSets, Sequences, TLC

\* src/storages/table_helper.go:11
unlockRetryCount == 5

\* The direct callers start at most MaxCalls EnsureTable calls in all.
MaxCalls == 3

\* The two goroutines of one process make at most MaxRepeatCalls EnsureTable
\* calls in all when a call is followed up by its repetition.
MaxRepeatCalls == 4

\* Store calls and the other process's EnsureTable
\* calls number at most MaxStoreOps in all.
MaxStoreOps == 2

\* A row-group of a payload holds 1..MaxRows rows.
MaxRows == 2

\* First value of a table's version counter at the MonitorKeeper.
Baseline == 0

\* An external type name is given with at most MaxPad white-space characters
\* on either side.
MaxPad == 1

\* src/typing/datatype.go:14-18 (STRING_TYPE is the DataType STRING)
UNKNOWN == 0
INT64 == 1
FLOAT64 == 2
STRING_TYPE == 3
TIMESTAMP == 4

Procs == {"A", "B"}
\* Goroutines calling EnsureTable directly: a1 and a2 share process A's cache.
Callers == {"a1", "a2", "b1"}
\* Goroutines calling Postgres.Store.
StoreCallers == {"s1"}
\* The streaming worker's goroutine, calling Postgres.Insert.
InsertCallers == {"w1"}
AllCallers == Callers \cup StoreCallers \cup InsertCallers
ProcOf(c) == IF c = "b1" THEN "B" ELSE "A"

Tables == {"t1", "t2"}
\* Tables the direct EnsureTable callers write to.
EnsureTables == {"t1"}
Cols == {"id", "a", "b"}
\* Column sets a write may require.
DesiredSets == {{"id", "a"}, {"id", "b"}}

NoOne == "none"
\* Owner of a lock whose release was abandoned after unlockRetryCount tries.
Leaked == "leaked"
\* Absent entry of th.tables.
Nil == [nil |-> TRUE]
\* Zero value of a caller's local *schema.Table.
NoObj == [cols |-> {}, ver |-> 0]

VARIABLES
  dest,       \* destination: table -> [exists, cols]
  version,    \* MonitorKeeper: table -> version counter
  lockOwner,  \* MonitorKeeper: table -> caller holding the lock, NoOne, Leaked
  cache,      \* th.tables of each process: table -> Nil or [cols, ver]
  call,       \* caller -> frame of its EnsureTable call
  hist,       \* caller -> history of its current call (observation only)
  nMut,       \* table -> successful CreateTable/PatchTableSchema so far (observation only)
  active,     \* the goroutines that call EnsureTable in this run
  started,    \* EnsureTable calls started by the direct callers
  breakOnError, \* Postgres.breakOnError
  store,      \* store caller -> frame of its Store call
  persisted,  \* store caller -> rows its last Store call committed
  pg,         \* the Postgres object: stream mode and the progress of Close
  ins,        \* insert caller -> frame of its Insert call
  conv        \* a conversion between external type names and DataTypes

vars == <<dest, version, lockOwner, cache, call, hist, nMut, active, started, breakOnError, store, persisted, pg, ins, conv>>
ports == <<dest, version, lockOwner>>
pgVars == <<pg, ins, conv>>
storeVars == <<breakOnError, store, persisted, pgVars>>

-----------------------------------------------------------------------------
(* schema.Table *)

\* Table.Exists(): a fetched schema of an absent table has no columns.
TableExists(obj) == obj.cols # {}

\* Table.Diff(another): the columns of `desired` that `cur` lacks.
DiffCols(cur, desired) == desired \ cur

\* SchemaDiff.Exists()
DiffExists(d) == d # {}

\* TableManager.GetTableSchema: a fresh object, Version is the zero value.
GetTableSchema(t) ==
  [cols |-> IF dest[t].exists THEN dest[t].cols ELSE {}, ver |-> 0]

-----------------------------------------------------------------------------
(* frames *)

IdleCall ==
  [pc |-> "idle", tbl |-> "t1", desired |-> {}, ref |-> "none", own |-> NoObj,
   diff |-> {}, ver |-> 0, err |-> FALSE, retry |-> 0]

NoHist ==
  [acq |-> 0, rel |-> 0, muts |-> 0, incs |-> 0, ports |-> FALSE,
   hit |-> FALSE, again |-> FALSE, refetched |-> FALSE]

IdleHist == [last |-> Nil, cur |-> NoHist]

\* Frame of a Store call.  tx: rows inserted in the open transaction; tried,
\* failed, commits, rollbacks, ensured, typed, opened: what the call did so
\* far (observation only).
IdleStore ==
  [pc |-> "idle", groups |-> <<>>, gi |-> 0, ri |-> 0, rowsCount |-> 0,
   tx |-> {}, tried |-> {}, failed |-> {}, commits |-> 0, rollbacks |-> 0,
   ensured |-> {}, typed |-> {}, opened |-> 0,
   count |-> 0, err |-> "none"]

\* Frame of an Insert call.  lacked: the table lacked a desired column when
\* the call began; mut0: the table's mutations until then; ens: what the
\* call's EnsureTable did; mutd: the table's mutations during EnsureTable;
\* typed, inserted: records coerced and inserted (observation only).
IdleInsert ==
  [pc |-> "idle", tbl |-> "t1", lacked |-> FALSE, mut0 |-> 0, ens |-> NoHist,
   mutd |-> 0, typed |-> 0, inserted |-> 0, err |-> "none"]

\* NewPostgres, lines 41-54: the storage, with its streaming worker started
\* in stream mode.  adapterCloses, workerCloses: calls of adapter.Close and of
\* streamingWorker.Close; failed: those that returned an error; err: the
\* failures the error returned by Close reports.
NewPostgres(streamMode) ==
  [streamMode |-> streamMode, pc |-> "open", adapterCloses |-> 0,
   workerCloses |-> 0, failed |-> {}, err |-> {}]

\* No conversion is under way.  s, t: the string or DataType given; parsed:
\* what TypeFromString returned; named: what StringFromType returned.
IdleConv ==
  [pc |-> "idle", s |-> <<>>, t |-> UNKNOWN,
   parsed |-> [type |-> UNKNOWN, err |-> FALSE],
   named |-> [str |-> <<>>, err |-> FALSE]]

\* The object a caller's dbTableSchema points to.
Obj(c) ==
  IF call[c].ref = "cache" THEN cache[ProcOf(c)][call[c].tbl] ELSE call[c].own

\* Two goroutines of one process, or one goroutine in each of two processes.
Pairs == {{"a1", "a2"}, {"a1", "b1"}}

InitShared ==
  /\ dest \in [Tables -> {[exists |-> FALSE, cols |-> {}],
                          [exists |-> TRUE, cols |-> {"id"}]}]
  /\ dest["t2"].exists = FALSE
  /\ version = [t \in Tables |-> Baseline]
  /\ lockOwner = [t \in Tables |-> NoOne]
  /\ cache = [p \in Procs |-> [t \in Tables |-> Nil]]
  /\ call = [c \in AllCallers |-> IdleCall]
  /\ hist = [c \in AllCallers |-> IdleHist]
  /\ nMut = [t \in Tables |-> 0]
  /\ store = [c \in StoreCallers |-> IdleStore]
  /\ persisted = [c \in StoreCallers |-> {}]
  /\ ins = [c \in InsertCallers |-> IdleInsert]

Init ==
  /\ InitShared
  /\ active \in Pairs
  /\ started = 0
  /\ breakOnError = FALSE
  /\ pg = NewPostgres(FALSE)
  /\ conv = IdleConv

-----------------------------------------------------------------------------
(* TableHelper.EnsureTable *)

Port(h) == [h EXCEPT !.cur.ports = TRUE]

\* The call repeats the last call of its process: the caller's own previous
\* call, or that of an idle goroutine of the same process, returned without
\* error for the same table and desired columns (observation only).
Repeats(c, t, D) ==
  \E d \in AllCallers :
    /\ ProcOf(d) = ProcOf(c)
    /\ call[d].pc = "idle"
    /\ hist[d].last = [tbl |-> t, desired |-> D]

\* Entry and line 37: look the table up in th.tables.
Enter(c, t, D) ==
  /\ call[c].pc = "idle"
  /\ LET hitc == cache[ProcOf(c)][t] # Nil IN
     /\ call' = [call EXCEPT ![c] =
                   [IdleCall EXCEPT !.pc = IF hitc THEN "diff" ELSE "gocLock",
                                    !.tbl = t, !.desired = D,
                                    !.ref = IF hitc THEN "cache" ELSE "none"]]
     /\ hist' = [hist EXCEPT ![c].cur = [NoHist EXCEPT
                             !.hit = hitc,
                             !.again = Repeats(c, t, D)]]
  /\ UNCHANGED <<ports, cache, nMut>>

StartCall(c) ==
  /\ c \in active
  /\ started' = started + 1
  /\ \E t \in EnsureTables, D \in DesiredSets : Enter(c, t, D)
  /\ UNCHANGED <<active, storeVars>>

Call(c) == started < MaxCalls /\ StartCall(c)

\* Leave with an error before any lock is taken, or after the deferred unlock.
Fail(f) == [f EXCEPT !.err = TRUE, !.pc = "ret"]
\* Leave with an error while the lock is held: the deferred unlock runs first.
FailLockedNoDefer(f, upc) == Fail(f)
FailLocked(f, upc) == [f EXCEPT !.err = TRUE, !.pc = upc, !.retry = 1]

\* getOrCreate, line 113
GocLock(c) ==
  /\ call[c].pc = "gocLock"
  /\ lockOwner[call[c].tbl] = NoOne
  /\ lockOwner' = [lockOwner EXCEPT ![call[c].tbl] = c]
  /\ call' = [call EXCEPT ![c].pc = "gocGet"]
  /\ hist' = [hist EXCEPT ![c] = Port([@ EXCEPT !.cur.acq = @ + 1])]
  /\ UNCHANGED <<dest, version, cache, nMut, active, started, storeVars>>

GocLockFail(c) ==
  /\ call[c].pc = "gocLock"
  /\ call' = [call EXCEPT ![c] = Fail(@)]
  /\ hist' = [hist EXCEPT ![c] = Port(@)]
  /\ UNCHANGED <<ports, cache, nMut, active, started, storeVars>>

\* getOrCreate, lines 120-126
GocGet(c) ==
  /\ call[c].pc = "gocGet"
  /\ LET o == GetTableSchema(call[c].tbl) IN
     call' = [call EXCEPT ![c].own = o, ![c].ref = "own",
                          ![c].pc = IF TableExists(o) THEN "gocVer" ELSE "gocCreate"]
  /\ hist' = [hist EXCEPT ![c] = Port(@)]
  /\ UNCHANGED <<ports, cache, nMut, active, started, storeVars>>

GocGetFail(c) ==
  /\ call[c].pc = "gocGet"
  /\ call' = [call EXCEPT ![c] = FailLocked(@, "gocUnlock")]
  /\ hist' = [hist EXCEPT ![c] = Port(@)]
  /\ UNCHANGED <<ports, cache, nMut, active, started, storeVars>>

\* getOrCreate, line 127
GocCreate(c) ==
  /\ call[c].pc = "gocCreate"
  /\ dest' = [dest EXCEPT ![call[c].tbl] = [exists |-> TRUE, cols |-> call[c].desired]]
  /\ nMut' = [nMut EXCEPT ![call[c].tbl] = @ + 1]
  /\ call' = [call EXCEPT ![c].pc = "gocInc"]
  /\ hist' = [hist EXCEPT ![c] = Port([@ EXCEPT !.cur.muts = @ + 1])]
  /\ UNCHANGED <<version, lockOwner, cache, active, started, storeVars>>

GocCreateFail(c) ==
  /\ call[c].pc = "gocCreate"
  /\ call' = [call EXCEPT ![c] = FailLocked(@, "gocUnlock")]
  /\ hist' = [hist EXCEPT ![c] = Port(@)]
  /\ UNCHANGED <<ports, cache, nMut, active, started, storeVars>>

\* getOrCreate, lines 131-137: dbTableSchema = dataSchema, Version = ver
GocInc(c) ==
  /\ call[c].pc = "gocInc"
  /\ version' = [version EXCEPT ![call[c].tbl] = @ + 1]
  /\ call' = [call EXCEPT ![c].own = [cols |-> call[c].desired,
                                      ver |-> version[call[c].tbl] + 1],
                          ![c].pc = "gocUnlock", ![c].retry = 1]
  /\ hist' = [hist EXCEPT ![c] = Port([@ EXCEPT !.cur.incs = @ + 1])]
  /\ UNCHANGED <<dest, lockOwner, cache, nMut, active, started, storeVars>>

GocIncFail(c) ==
  /\ call[c].pc = "gocInc"
  /\ call' = [call EXCEPT ![c] = FailLocked(@, "gocUnlock")]
  /\ hist' = [hist EXCEPT ![c] = Port(@)]
  /\ UNCHANGED <<ports, cache, nMut, active, started, storeVars>>

\* getOrCreate, lines 139-144
GocVerKeepsLock(c) ==
  /\ call[c].pc = "gocVer"
  /\ call' = [call EXCEPT ![c].own.ver = version[call[c].tbl], ![c].pc = "save"]
  /\ hist' = [hist EXCEPT ![c] = Port(@)]
  /\ UNCHANGED <<ports, cache, nMut, active, started, storeVars>>
GocVer(c) ==
  /\ call[c].pc = "gocVer"
  /\ call' = [call EXCEPT ![c].own.ver = version[call[c].tbl],
                          ![c].pc = "gocUnlock", ![c].retry = 1]
  /\ hist' = [hist EXCEPT ![c] = Port(@)]
  /\ UNCHANGED <<ports, cache, nMut, active, started, storeVars>>

GocVerFail(c) ==
  /\ call[c].pc = "gocVer"
  /\ call' = [call EXCEPT ![c] = FailLocked(@, "gocUnlock")]
  /\ hist' = [hist EXCEPT ![c] = Port(@)]
  /\ UNCHANGED <<ports, cache, nMut, active, started, storeVars>>

\* Where a call goes once its deferred unlock has run.
AfterUnlock(f) ==
  IF f.pc = "gocUnlock" /\ ~f.err THEN "save" ELSE "ret"

\* unlock, line 151: Unlock succeeds.
UnlockOK(c) ==
  /\ call[c].pc \in {"gocUnlock", "unlock"}
  /\ lockOwner' = [lockOwner EXCEPT ![call[c].tbl] = NoOne]
  /\ call' = [call EXCEPT ![c].pc = AfterUnlock(call[c]), ![c].retry = 0]
  /\ hist' = [hist EXCEPT ![c] = Port([@ EXCEPT !.cur.rel = IF call[c].retry = 1 THEN @ + 1 ELSE @])]
  /\ UNCHANGED <<dest, version, cache, nMut, active, started, storeVars>>

\* unlock, lines 151-156: Unlock fails; retry, or log and give up.
UnlockRetryOnceMore(f) ==
  IF f.retry = unlockRetryCount + 1
    THEN [f EXCEPT !.pc = AfterUnlock(f), !.retry = 0]
    ELSE [f EXCEPT !.retry = @ + 1]
UnlockRetry(f) ==
  IF f.retry = unlockRetryCount
    THEN [f EXCEPT !.pc = AfterUnlock(f), !.retry = 0]
    ELSE [f EXCEPT !.retry = @ + 1]

UnlockFail(c) ==
  /\ call[c].pc \in {"gocUnlock", "unlock"}
  /\ call' = [call EXCEPT ![c] = UnlockRetry(@)]
  /\ lockOwner' = [lockOwner EXCEPT ![call[c].tbl] =
                     IF UnlockRetry(call[c]).retry = 0 THEN Leaked ELSE @]
  /\ hist' = [hist EXCEPT ![c] = Port([@ EXCEPT !.cur.rel = IF call[c].retry = 1 THEN @ + 1 ELSE @])]
  /\ UNCHANGED <<dest, version, cache, nMut, active, started, storeVars>>

\* Line 47: th.tables[name] = dbTableSchema.  A goroutine of the same process
\* that looked the replaced entry up keeps its pointer to the old object.
Save(c) ==
  /\ call[c].pc = "save"
  /\ LET p == ProcOf(c)
         t == call[c].tbl
         old == cache[p][t]
     IN
     /\ cache' = [cache EXCEPT ![p][t] = call[c].own]
     /\ call' = [d \in AllCallers |->
                  IF d = c
                    THEN [call[c] EXCEPT !.pc = "diff", !.ref = "cache", !.own = NoObj]
                  ELSE IF ProcOf(d) = p /\ call[d].tbl = t /\ call[d].ref = "cache"
                    THEN [call[d] EXCEPT !.ref = "own", !.own = old]
                  ELSE call[d]]
  /\ UNCHANGED <<ports, hist, nMut, active, started, storeVars>>

\* Lines 55-58: without a diff, return the schema at once.
AfterDiffAlwaysLock(d) == "lock"
AfterDiff(d) == IF DiffExists(d) THEN "lock" ELSE "ret"

\* Lines 50-58: first diff, against the looked-up object, without the lock.
Diff(c) ==
  /\ call[c].pc = "diff"
  /\ LET d == DiffCols(Obj(c).cols, call[c].desired) IN
     call' = [call EXCEPT ![c].diff = d, ![c].pc = AfterDiff(d)]
  /\ UNCHANGED <<ports, cache, hist, nMut, active, started, storeVars>>

DiffFail(c) ==
  /\ call[c].pc = "diff"
  /\ call' = [call EXCEPT ![c] = Fail(@)]
  /\ UNCHANGED <<ports, cache, hist, nMut, active, started, storeVars>>

\* Line 61
Lock(c) ==
  /\ call[c].pc = "lock"
  /\ lockOwner[call[c].tbl] = NoOne
  /\ lockOwner' = [lockOwner EXCEPT ![call[c].tbl] = c]
  /\ call' = [call EXCEPT ![c].pc = "getVer"]
  /\ hist' = [hist EXCEPT ![c] = Port([@ EXCEPT !.cur.acq = @ + 1])]
  /\ UNCHANGED <<dest, version, cache, nMut, active, started, storeVars>>

LockFail(c) ==
  /\ call[c].pc = "lock"
  /\ call' = [call EXCEPT ![c] = Fail(@)]
  /\ hist' = [hist EXCEPT ![c] = Port(@)]
  /\ UNCHANGED <<ports, cache, nMut, active, started, storeVars>>

\* Lines 67-73: read the counter and compare it with dbTableSchema.Version.
Stale(c, ver) == ver # Obj(c).ver

GetVer(c) ==
  /\ call[c].pc = "getVer"
  /\ LET ver == version[call[c].tbl] IN
     call' = [call EXCEPT ![c].ver = ver,
                          ![c].pc = IF Stale(c, ver) THEN "refetch" ELSE "patch"]
  /\ hist' = [hist EXCEPT ![c] = Port(@)]
  /\ UNCHANGED <<ports, cache, nMut, active, started, storeVars>>

GetVerFail(c) ==
  /\ call[c].pc = "getVer"
  /\ call' = [call EXCEPT ![c] = FailLocked(@, "unlock")]
  /\ hist' = [hist EXCEPT ![c] = Port(@)]
  /\ UNCHANGED <<ports, cache, nMut, active, started, storeVars>>

\* Lines 87-90: after the second diff, return if nothing is left to patch.
AfterRefetchIncrement(d) == IF DiffExists(d) THEN "patch" ELSE "incr"
AfterRefetch(d) == IF DiffExists(d) THEN "patch" ELSE "unlock"

\* Lines 74-90: re-fetch into the local dbTableSchema (th.tables is not
\* written), adopt the version, diff again.
Refetch(c) ==
  /\ call[c].pc = "refetch"
  /\ LET o == [GetTableSchema(call[c].tbl) EXCEPT !.ver = call[c].ver]
         d == DiffCols(o.cols, call[c].desired)
     IN
     call' = [call EXCEPT ![c].own = o, ![c].ref = "own", ![c].diff = d,
                          ![c].pc = AfterRefetch(d),
                          ![c].retry = IF AfterRefetch(d) = "unlock" THEN 1 ELSE 0]
  /\ hist' = [hist EXCEPT ![c] = Port([@ EXCEPT !.cur.refetched = TRUE])]
  /\ UNCHANGED <<ports, cache, nMut, active, started, storeVars>>

\* GetTableSchema (line 75) or the second Diff (line 82) returns an error.
RefetchFail(c) ==
  /\ call[c].pc = "refetch"
  /\ call' = [call EXCEPT ![c] = FailLocked(@, "unlock")]
  /\ hist' = [hist EXCEPT ![c] = Port(@)]
  /\ UNCHANGED <<ports, cache, nMut, active, started, storeVars>>

\* Line 93
Patch(c) ==
  /\ call[c].pc = "patch"
  /\ dest' = [dest EXCEPT ![call[c].tbl].cols = @ \cup call[c].diff]
  /\ nMut' = [nMut EXCEPT ![call[c].tbl] = @ + 1]
  /\ call' = [call EXCEPT ![c].pc = "incr"]
  /\ hist' = [hist EXCEPT ![c] = Port([@ EXCEPT !.cur.muts = @ + 1])]
  /\ UNCHANGED <<version, lockOwner, cache, active, started, storeVars>>

PatchFail(c) ==
  /\ call[c].pc = "patch"
  /\ call' = [call EXCEPT ![c] = FailLocked(@, "unlock")]
  /\ hist' = [hist EXCEPT ![c] = Port(@)]
  /\ UNCHANGED <<ports, cache, nMut, active, started, storeVars>>

\* Line 97
Incr(c) ==
  /\ call[c].pc = "incr"
  /\ version' = [version EXCEPT ![call[c].tbl] = @ + 1]
  /\ call' = [call EXCEPT ![c].ver = version[call[c].tbl] + 1, ![c].pc = "merge"]
  /\ hist' = [hist EXCEPT ![c] = Port([@ EXCEPT !.cur.incs = @ + 1])]
  /\ UNCHANGED <<dest, lockOwner, cache, nMut, active, started, storeVars>>

IncrFailMerges(c) ==
  /\ call[c].pc = "incr"
  /\ call' = [call EXCEPT ![c] = FailLocked(@, "unlock")]
  /\ hist' = [hist EXCEPT ![c] = Port(@)]
  /\ cache' = [cache EXCEPT ![ProcOf(c)][call[c].tbl] =
                 IF @ = Nil THEN @
                 ELSE [cols |-> @.cols \cup call[c].diff, ver |-> call[c].ver + 1]]
  /\ UNCHANGED <<ports, nMut, active, started, storeVars>>
IncrFail(c) ==
  /\ call[c].pc = "incr"
  /\ call' = [call EXCEPT ![c] = FailLocked(@, "unlock")]
  /\ hist' = [hist EXCEPT ![c] = Port(@)]
  /\ UNCHANGED <<ports, cache, nMut, active, started, storeVars>>

\* Lines 103-106: merge the diff into the object dbTableSchema points to.
MergedLost(o, d, ver) == [cols |-> o.cols, ver |-> ver]
Merged(o, d, ver) == [cols |-> o.cols \cup d, ver |-> ver]

Merge(c) ==
  /\ call[c].pc = "merge"
  /\ LET o == Merged(Obj(c), call[c].diff, call[c].ver) IN
     IF call[c].ref = "cache"
       THEN /\ cache' = [cache EXCEPT ![ProcOf(c)][call[c].tbl] = o]
            /\ call' = [call EXCEPT ![c].pc = "unlock", ![c].retry = 1]
       ELSE /\ cache' = cache
            /\ call' = [call EXCEPT ![c].own = o, ![c].pc = "unlock", ![c].retry = 1]
  /\ UNCHANGED <<ports, hist, nMut, active, started, storeVars>>

\* The call of a direct caller returns.
Return(c) ==
  /\ c \in Callers
  /\ call[c].pc = "ret"
  /\ hist' = [hist EXCEPT ![c].cur = NoHist,
                          ![c].last = IF call[c].err THEN Nil
                                      ELSE [tbl |-> call[c].tbl, desired |-> call[c].desired]]
  /\ call' = [call EXCEPT ![c] = IdleCall]
  /\ UNCHANGED <<ports, cache, nMut, active, started, storeVars>>

\* Steps of EnsureTable in which every port call succeeds.
EnsureStep(c) ==
  \/ GocLock(c) \/ GocGet(c) \/ GocCreate(c) \/ GocInc(c) \/ GocVer(c)
  \/ UnlockOK(c) \/ Save(c) \/ Diff(c) \/ Lock(c) \/ GetVer(c) \/ Refetch(c)
  \/ Patch(c) \/ Incr(c) \/ Merge(c)

\* Steps in which a port call other than Unlock (or Diff) returns an error.
PortFail(c) ==
  \/ GocLockFail(c) \/ GocGetFail(c) \/ GocCreateFail(c) \/ GocIncFail(c)
  \/ GocVerFail(c) \/ DiffFail(c) \/ LockFail(c)
  \/ GetVerFail(c) \/ RefetchFail(c) \/ PatchFail(c) \/ IncrFail(c)

EnsureFail(c) == PortFail(c) \/ UnlockFail(c)

NextOK == \E c \in Callers : Call(c) \/ EnsureStep(c) \/ Return(c)

Next == \E c \in Callers : Call(c) \/ EnsureStep(c) \/ EnsureFail(c) \/ Return(c)

\* Concurrent EnsureTable callers; port calls may fail.
Spec == Init /\ [][Next]_vars

\* Concurrent EnsureTable callers; every port call succeeds.
SpecOK == Init /\ [][NextOK]_vars

RepeatCall(c) == started < MaxRepeatCalls /\ StartCall(c)

InitRepeat ==
  /\ InitShared
  /\ active = {"a1", "a2"}
  /\ started = 0
  /\ breakOnError = FALSE
  /\ pg = NewPostgres(FALSE)
  /\ conv = IdleConv

NextRepeat ==
  \E c \in Callers : RepeatCall(c) \/ EnsureStep(c) \/ EnsureFail(c) \/ Return(c)

\* The goroutines of one process calling EnsureTable again and again; port
\* calls may fail.
SpecRepeat == InitRepeat /\ [][NextRepeat]_vars

-----------------------------------------------------------------------------
(* Postgres.Store *)

\* flatData: row-groups, each with its table, desired schema and row count.
Group(t, D, n) == [tbl |-> t, desired |-> D, n |-> n]
Payloads ==
  {<<Group("t1", {"id", "a"}, n)>> : n \in 1..MaxRows}
  \cup {<<Group("t1", {"id", "b"}, 1), Group("t2", {"id", "a"}, n)>> : n \in 1..MaxRows}

\* Rows of a payload, as <<group, index>>.
RowsOf(groups) ==
  {x \in (1..Len(groups)) \X (1..MaxRows) : x[2] <= groups[x[1]].n}

\* Lines 66-69: rowsCount += fdata.GetPayloadLen()
RECURSIVE SumRows(_)
SumRows(groups) ==
  IF groups = <<>> THEN 0 ELSE Head(groups).n + SumRows(Tail(groups))

\* linesCount(payload): the payload holds one line per row.
linesCount(groups) == Cardinality(RowsOf(groups))

\* Store returns (count, err).
StoreRet(f, e) == [f EXCEPT !.pc = "ret", !.count = f.rowsCount, !.err = e]

\* Lines 61-69 and the first EnsureTable call of line 73.
StoreBegin(c) ==
  /\ store[c].pc = "idle"
  /\ started < MaxStoreOps
  /\ started' = started + 1
  /\ \E P \in Payloads :
       /\ store' = [store EXCEPT ![c] =
                      [IdleStore EXCEPT !.pc = "ensure", !.groups = P, !.gi = 1,
                                        !.rowsCount = SumRows(P)]]
       /\ Enter(c, P[1].tbl, P[1].desired)
  /\ persisted' = [persisted EXCEPT ![c] = {}]
  /\ UNCHANGED <<active, breakOnError, pgVars>>

\* Lines 61-64: ProcessFilePayload fails.
StoreBeginFail(c) ==
  /\ store[c].pc = "idle"
  /\ started < MaxStoreOps
  /\ started' = started + 1
  /\ \E P \in Payloads :
       store' = [store EXCEPT ![c] =
                   [IdleStore EXCEPT !.pc = "ret", !.groups = P,
                                     !.count = linesCount(P), !.err = "payload"]]
  /\ persisted' = [persisted EXCEPT ![c] = {}]
  /\ UNCHANGED <<ports, cache, call, hist, nMut, active, breakOnError, pgVars>>

\* Lines 74-76: an error of EnsureTable ends the call; otherwise line 78.
AfterEnsureIgnoresError(f, failed) ==
  [f EXCEPT !.pc = "typing"]
AfterEnsure(f, failed) ==
  IF failed THEN StoreRet(f, "ensure")
            ELSE [f EXCEPT !.pc = "typing", !.ensured = @ \cup {f.gi}]

\* Lines 73-76: EnsureTable has returned.
StoreEnsured(c) ==
  /\ store[c].pc = "ensure"
  /\ call[c].pc = "ret"
  /\ store' = [store EXCEPT ![c] = AfterEnsure(@, call[c].err)]
  /\ hist' = [hist EXCEPT ![c].cur = NoHist, ![c].last = Nil]
  /\ call' = [call EXCEPT ![c] = IdleCall]
  /\ UNCHANGED <<ports, cache, nMut, active, started, breakOnError, pgVars, persisted>>

\* Lines 78-81: ApplyDBTyping succeeds; next row-group, or line 84.
StoreTyping(c) ==
  /\ store[c].pc = "typing"
  /\ IF store[c].gi < Len(store[c].groups)
       THEN /\ store' = [store EXCEPT ![c].gi = @ + 1, ![c].pc = "ensure",
                                      ![c].typed = @ \cup {store[c].gi}]
            /\ Enter(c, store[c].groups[store[c].gi + 1].tbl,
                        store[c].groups[store[c].gi + 1].desired)
       ELSE /\ store' = [store EXCEPT ![c].pc = "openTx",
                                      ![c].typed = @ \cup {store[c].gi}]
            /\ UNCHANGED <<ports, cache, call, hist, nMut>>
  /\ UNCHANGED <<active, started, breakOnError, pgVars, persisted>>

StoreTypingFail(c) ==
  /\ store[c].pc = "typing"
  /\ store' = [store EXCEPT ![c] = StoreRet(@, "typing")]
  /\ UNCHANGED <<ports, cache, call, hist, nMut, active, started, breakOnError, pgVars, persisted>>

\* Lines 84-87
StoreOpenTx(c) ==
  /\ store[c].pc = "openTx"
  /\ store' = [store EXCEPT ![c].pc = "insert", ![c].gi = 1, ![c].ri = 1, ![c].tx = {},
                            ![c].opened = @ + 1]
  /\ UNCHANGED <<ports, cache, call, hist, nMut, active, started, breakOnError, pgVars, persisted>>

StoreOpenTxFail(c) ==
  /\ store[c].pc = "openTx"
  /\ store' = [store EXCEPT ![c] = StoreRet(@, "openTx")]
  /\ UNCHANGED <<ports, cache, call, hist, nMut, active, started, breakOnError, pgVars, persisted>>

\* Lines 89-90: the loops move to the next row, or fall through to line 102.
NextRow(f) ==
  IF f.ri < f.groups[f.gi].n THEN [f EXCEPT !.ri = @ + 1]
  ELSE IF f.gi < Len(f.groups) THEN [f EXCEPT !.gi = @ + 1, !.ri = 1]
  ELSE [f EXCEPT !.pc = "commit"]

\* Line 91: InsertInTransaction succeeds.
StoreInsert(c) ==
  /\ store[c].pc = "insert"
  /\ LET row == <<store[c].gi, store[c].ri>> IN
     store' = [store EXCEPT ![c] =
                 NextRow([@ EXCEPT !.tx = @ \cup {row}, !.tried = @ \cup {row}])]
  /\ UNCHANGED <<ports, cache, call, hist, nMut, active, started, breakOnError, pgVars, persisted>>

\* Lines 92-97: InsertInTransaction failed: roll back and return, or skip.
InsertFailedNeverBreaks(f, brk) == NextRow(f)
InsertFailedAlwaysBreaks(f, brk) ==
  StoreRet([f EXCEPT !.tx = {}, !.rollbacks = @ + 1], "insert")
InsertFailed(f, brk) ==
  IF brk THEN StoreRet([f EXCEPT !.tx = {}, !.rollbacks = @ + 1], "insert")
         ELSE NextRow(f)

StoreInsertFail(c) ==
  /\ store[c].pc = "insert"
  /\ LET row == <<store[c].gi, store[c].ri>> IN
     store' = [store EXCEPT ![c] =
                 InsertFailed([@ EXCEPT !.tried = @ \cup {row}, !.failed = @ \cup {row}],
                              breakOnError)]
  /\ UNCHANGED <<ports, cache, call, hist, nMut, active, started, breakOnError, pgVars, persisted>>

\* Line 102: DirectCommit succeeds: the rows of the transaction are stored.
StoreCommit(c) ==
  /\ store[c].pc = "commit"
  /\ persisted' = [persisted EXCEPT ![c] = store[c].tx]
  /\ store' = [store EXCEPT ![c] = StoreRet([@ EXCEPT !.tx = {}, !.commits = @ + 1], "none")]
  /\ UNCHANGED <<ports, cache, call, hist, nMut, active, started, breakOnError, pgVars>>

StoreCommitFail(c) ==
  /\ store[c].pc = "commit"
  /\ store' = [store EXCEPT ![c] = StoreRet([@ EXCEPT !.tx = {}, !.commits = @ + 1], "commit")]
  /\ UNCHANGED <<ports, cache, call, hist, nMut, active, started, breakOnError, pgVars, persisted>>

\* Store returns to its caller.
StoreReturn(c) ==
  /\ store[c].pc = "ret"
  /\ store' = [store EXCEPT ![c] = IdleStore]
  /\ UNCHANGED <<ports, cache, call, hist, nMut, active, started, breakOnError, pgVars, persisted>>

StoreStep(c) ==
  \/ StoreBegin(c) \/ StoreBeginFail(c) \/ StoreEnsured(c)
  \/ StoreTyping(c) \/ StoreTypingFail(c) \/ StoreOpenTx(c) \/ StoreOpenTxFail(c)
  \/ StoreInsert(c) \/ StoreInsertFail(c) \/ StoreCommit(c) \/ StoreCommitFail(c)
  \/ StoreReturn(c)

SiblingCall(c) == started < MaxStoreOps /\ StartCall(c)

InitStore ==
  /\ InitShared
  /\ active = {"b1"}
  /\ started = 0
  /\ breakOnError \in BOOLEAN
  /\ pg = NewPostgres(FALSE)
  /\ conv = IdleConv

NextStore ==
  \/ \E c \in StoreCallers : StoreStep(c)
  \/ \E c \in AllCallers : SiblingCall(c) \/ EnsureStep(c) \/ PortFail(c) \/ Return(c)

\* Store calls of one process, with or without breakOnError, beside the
\* EnsureTable calls of another process; port calls other than Unlock may fail.
SpecStore == InitStore /\ [][NextStore]_vars

-----------------------------------------------------------------------------
(* Postgres.Insert *)

\* Line 107: Insert calls EnsureTable.
InsertBegin(c) ==
  /\ ins[c].pc = "idle"
  /\ started < MaxStoreOps
  /\ started' = started + 1
  /\ \E t \in EnsureTables, D \in DesiredSets :
       /\ Enter(c, t, D)
       /\ ins' = [ins EXCEPT ![c] =
                    [IdleInsert EXCEPT !.pc = "ensure", !.tbl = t,
                                       !.lacked = ~(D \subseteq dest[t].cols),
                                       !.mut0 = nMut[t]]]
  /\ UNCHANGED <<active, breakOnError, store, persisted, pg, conv>>

\* Lines 108-110: an error of EnsureTable ends the call; otherwise line 112.
InsertAfterEnsureIgnoresError(f, failed) ==
  [f EXCEPT !.pc = "typing"]
InsertAfterEnsure(f, failed) ==
  IF failed THEN [f EXCEPT !.pc = "ret", !.err = "ensure"]
            ELSE [f EXCEPT !.pc = "typing"]

\* Lines 107-110: EnsureTable has returned.
InsertEnsured(c) ==
  /\ ins[c].pc = "ensure"
  /\ call[c].pc = "ret"
  /\ ins' = [ins EXCEPT ![c] =
               InsertAfterEnsure([@ EXCEPT !.ens = hist[c].cur,
                                           !.mutd = nMut[ins[c].tbl] - ins[c].mut0],
                                 call[c].err)]
  /\ hist' = [hist EXCEPT ![c].cur = NoHist, ![c].last = Nil]
  /\ call' = [call EXCEPT ![c] = IdleCall]
  /\ UNCHANGED <<ports, cache, nMut, active, started, breakOnError, store, persisted, pg, conv>>

\* Lines 112-114: ApplyDBTypingToObject
InsertTyping(c) ==
  /\ ins[c].pc = "typing"
  /\ ins' = [ins EXCEPT ![c].pc = "insert", ![c].typed = @ + 1]
  /\ UNCHANGED <<ports, cache, call, hist, nMut, active, started, breakOnError, store, persisted, pg, conv>>

InsertTypingFail(c) ==
  /\ ins[c].pc = "typing"
  /\ ins' = [ins EXCEPT ![c].pc = "ret", ![c].err = "typing"]
  /\ UNCHANGED <<ports, cache, call, hist, nMut, active, started, breakOnError, store, persisted, pg, conv>>

\* Line 116: adapter.Insert
InsertRow(c) ==
  /\ ins[c].pc = "insert"
  /\ ins' = [ins EXCEPT ![c].pc = "ret", ![c].inserted = @ + 1]
  /\ UNCHANGED <<ports, cache, call, hist, nMut, active, started, breakOnError, store, persisted, pg, conv>>

InsertRowFail(c) ==
  /\ ins[c].pc = "insert"
  /\ ins' = [ins EXCEPT ![c].pc = "ret", ![c].err = "insert"]
  /\ UNCHANGED <<ports, cache, call, hist, nMut, active, started, breakOnError, store, persisted, pg, conv>>

\* Insert returns to the streaming worker.
InsertReturn(c) ==
  /\ ins[c].pc = "ret"
  /\ ins' = [ins EXCEPT ![c] = IdleInsert]
  /\ UNCHANGED <<ports, cache, call, hist, nMut, active, started, breakOnError, store, persisted, pg, conv>>

InsertStep(c) ==
  \/ InsertBegin(c) \/ InsertEnsured(c) \/ InsertTyping(c) \/ InsertTypingFail(c)
  \/ InsertRow(c) \/ InsertRowFail(c) \/ InsertReturn(c)

-----------------------------------------------------------------------------
(* Postgres.Close *)

\* Lines 121, 125: adapter.Close returned without error.
CloseAdapter ==
  /\ pg.pc = "open"
  /\ pg' = [pg EXCEPT !.pc = "worker", !.adapterCloses = @ + 1]
  /\ UNCHANGED <<ports, cache, call, hist, nMut, active, started, breakOnError, store, persisted, ins, conv>>

\* Lines 121-123: adapter.Close failed: Close returns that error.
CloseAdapterFail ==
  /\ pg.pc = "open"
  /\ pg' = [pg EXCEPT !.pc = "closed", !.adapterCloses = @ + 1,
                      !.failed = @ \cup {"adapter"}, !.err = {"adapter"}]
  /\ UNCHANGED <<ports, cache, call, hist, nMut, active, started, breakOnError, store, persisted, ins, conv>>

\* Lines 125-128: stop the streaming worker, if there is one; return nil.
CloseWorker ==
  /\ pg.pc = "worker"
  /\ pg' = [pg EXCEPT !.pc = "closed", !.err = {},
                      !.workerCloses = IF pg.streamMode THEN @ + 1 ELSE @]
  /\ UNCHANGED <<ports, cache, call, hist, nMut, active, started, breakOnError, store, persisted, ins, conv>>

\* Lines 126-128: what streamingWorker.Close returns is dropped.
CloseWorkerFail ==
  /\ pg.pc = "worker"
  /\ pg.streamMode
  /\ pg' = [pg EXCEPT !.pc = "closed", !.err = {}, !.workerCloses = @ + 1,
                      !.failed = @ \cup {"worker"}]
  /\ UNCHANGED <<ports, cache, call, hist, nMut, active, started, breakOnError, store, persisted, ins, conv>>

CloseStep == CloseAdapter \/ CloseAdapterFail \/ CloseWorker \/ CloseWorkerFail

InitStream ==
  /\ InitShared
  /\ active = {"b1"}
  /\ started = 0
  /\ breakOnError = FALSE
  /\ pg \in {NewPostgres(sm) : sm \in BOOLEAN}
  /\ conv = IdleConv

\* In stream mode the worker inserts; Close is called once, at shutdown.
NextStream ==
  \/ CloseStep
  \/ /\ pg.pc = "open"
     /\ \/ \E c \in InsertCallers : pg.streamMode /\ InsertStep(c)
        \/ \E c \in AllCallers : SiblingCall(c) \/ EnsureStep(c) \/ PortFail(c) \/ Return(c)

\* A storage with or without a streaming worker, beside the EnsureTable calls
\* of another process, until Close; port calls other than Unlock may fail.
SpecStream == InitStream /\ [][NextStream]_vars

-----------------------------------------------------------------------------
(* Store, Insert and EnsureTable callers side by side *)

\* The goroutines that run: Store, the streaming worker, and one direct
\* caller of EnsureTable in another process.
LiveCallers == StoreCallers \cup InsertCallers \cup {"b1"}

InitLive ==
  /\ InitShared
  /\ active = LiveCallers \cap Callers
  /\ started = 0
  /\ breakOnError = FALSE
  /\ pg = NewPostgres(TRUE)
  /\ conv = IdleConv

NextLive ==
  \/ \E c \in StoreCallers : StoreStep(c)
  \/ \E c \in InsertCallers : InsertStep(c)
  \/ \E c \in LiveCallers : SiblingCall(c) \/ EnsureStep(c) \/ Return(c)

\* MonitorKeeper.Lock returns: lines 61 and 113.
Acquire(c) == GocLock(c) \/ Lock(c)

\* The steps of EnsureTable that wait for nobody.
Proceed(c) ==
  \/ GocGet(c) \/ GocCreate(c) \/ GocInc(c) \/ GocVer(c)
  \/ UnlockOK(c) \/ Save(c) \/ Diff(c) \/ GetVer(c) \/ Refetch(c)
  \/ Patch(c) \/ Incr(c) \/ Merge(c)

\* A Store caller and the streaming worker of one process beside a caller of
\* another process; the MonitorKeeper and the TableManager do not fail.
\* Every goroutine inside EnsureTable keeps running, and a caller whose
\* lock stays free gets it.
SpecLive ==
  /\ InitLive
  /\ [][NextLive]_vars
  /\ \A c \in LiveCallers : WF_vars(Proceed(c)) /\ WF_vars(Acquire(c))

-----------------------------------------------------------------------------
(* typing.DataType.  A string is a sequence of characters. *)

\* Lines 22-27: the keys of inputStringToType.
NameString == <<"s", "t", "r", "i", "n", "g">>
NameInteger == <<"i", "n", "t", "e", "g", "e", "r">>
NameDouble == <<"d", "o", "u", "b", "l", "e">>
NameTimestamp == <<"t", "i", "m", "e", "s", "t", "a", "m", "p">>

\* Lines 22-27
inputStringToType ==
  (NameString :> STRING_TYPE) @@ (NameInteger :> INT64)
  @@ (NameDouble :> FLOAT64) @@ (NameTimestamp :> TIMESTAMP)

\* Lines 28-33
typeToInputStringSwapped ==
  (STRING_TYPE :> NameString) @@ (INT64 :> NameDouble)
  @@ (FLOAT64 :> NameInteger) @@ (TIMESTAMP :> NameTimestamp)
typeToInputString ==
  (STRING_TYPE :> NameString) @@ (INT64 :> NameInteger)
  @@ (FLOAT64 :> NameDouble) @@ (TIMESTAMP :> NameTimestamp)

\* The letters of the names and x, in both cases.
LowerLetters == <<"a", "b", "d", "e", "g", "i", "l", "m", "n", "o", "p", "r", "s", "t", "u", "x">>
UpperLetters == <<"A", "B", "D", "E", "G", "I", "L", "M", "N", "O", "P", "R", "S", "T", "U", "X">>
\* Space, tab, line feed.
WhiteSpace == {" ", "\t", "\n"}

\* unicode.ToLower on one character
ToLowerChar(ch) ==
  IF \E i \in DOMAIN UpperLetters : UpperLetters[i] = ch
    THEN LowerLetters[CHOOSE i \in DOMAIN UpperLetters : UpperLetters[i] = ch]
    ELSE ch

ToUpperChar(ch) ==
  IF \E i \in DOMAIN LowerLetters : LowerLetters[i] = ch
    THEN UpperLetters[CHOOSE i \in DOMAIN LowerLetters : LowerLetters[i] = ch]
    ELSE ch

\* strings.ToLower
ToLower(str) == [i \in DOMAIN str |-> ToLowerChar(str[i])]

\* strings.TrimSpace: drop the white space at both ends.
RECURSIVE TrimLeft(_)
TrimLeft(str) ==
  IF str # <<>> /\ Head(str) \in WhiteSpace THEN TrimLeft(Tail(str)) ELSE str

RECURSIVE TrimRight(_)
TrimRight(str) ==
  IF str # <<>> /\ str[Len(str)] \in WhiteSpace
    THEN TrimRight(SubSeq(str, 1, Len(str) - 1)) ELSE str

TrimSpace(str) == TrimRight(TrimLeft(str))

\* Lines 53-61
TypeFromString(t) ==
  LET lowerTrimmed == ToLower(TrimSpace(t)) IN
  IF lowerTrimmed \in DOMAIN inputStringToType
    THEN [type |-> inputStringToType[lowerTrimmed], err |-> FALSE]
    ELSE [type |-> UNKNOWN, err |-> TRUE]

\* Lines 63-69
StringFromType(dataType) ==
  IF dataType \in DOMAIN typeToInputString
    THEN [str |-> typeToInputString[dataType], err |-> FALSE]
    ELSE [str |-> <<>>, err |-> TRUE]

\* The spellings of a name in every mix of upper and lower case.
RECURSIVE Spellings(_)
Spellings(name) ==
  IF name = <<>> THEN {<<>>}
  ELSE {<<ch>> \o rest : ch \in {Head(name), ToUpperChar(Head(name))},
                          rest \in Spellings(Tail(name))}

\* Runs of at most n white-space characters.
RECURSIVE Pads(_)
Pads(n) ==
  IF n = 0 THEN {<<>>}
  ELSE Pads(n - 1) \cup {<<ch>> \o rest : ch \in WhiteSpace, rest \in Pads(n - 1)}

ExternalNames == {NameString, NameInteger, NameDouble, NameTimestamp}

\* The valid names: any spelling, white space around it.
ValidInputs ==
  {l \o w \o r : l \in Pads(MaxPad), r \in Pads(MaxPad),
                 w \in UNION {Spellings(name) : name \in ExternalNames}}

\* Other strings: empty, blank, DataType.String() names, shortened,
\* lengthened and split names.
InvalidInputs ==
  {<<>>, <<" ">>, <<"b", "o", "g", "u", "s">>,
   <<"I", "N", "T", "6", "4">>, <<"i", "n", "t">>, <<"s", "t", "r", "i", "n">>,
   <<"d", "o", "u", "b", "l", "e", "s">>, <<"x", "s", "t", "r", "i", "n", "g">>,
   <<"s", "t", "r", " ", "i", "n", "g">>, <<"d", "o", "u", "b", "l", "e", " ", "x">>}

\* DataType values handed to StringFromType: the declared ones and one more.
DataTypes == UNKNOWN..(TIMESTAMP + 1)

InitTyping ==
  /\ InitShared
  /\ dest["t1"].exists
  /\ active = {}
  /\ started = 0
  /\ breakOnError = FALSE
  /\ pg = NewPostgres(FALSE)
  /\ conv \in {[IdleConv EXCEPT !.pc = "string", !.s = str] :
                   str \in ValidInputs \cup InvalidInputs}
             \cup {[IdleConv EXCEPT !.pc = "type", !.t = dt] : dt \in DataTypes}

\* TypeFromString on the given string.
Parse ==
  /\ conv.pc = "string"
  /\ conv' = [conv EXCEPT !.pc = "parsed", !.parsed = TypeFromString(conv.s)]
  /\ UNCHANGED <<ports, cache, call, hist, nMut, active, started, breakOnError, store, persisted, pg, ins>>

\* StringFromType on the DataType that TypeFromString returned.
NameParsed ==
  /\ conv.pc = "parsed"
  /\ ~conv.parsed.err
  /\ conv' = [conv EXCEPT !.pc = "roundString", !.named = StringFromType(conv.parsed.type)]
  /\ UNCHANGED <<ports, cache, call, hist, nMut, active, started, breakOnError, store, persisted, pg, ins>>

\* StringFromType on the given DataType.
Name ==
  /\ conv.pc = "type"
  /\ conv' = [conv EXCEPT !.pc = "named", !.named = StringFromType(conv.t)]
  /\ UNCHANGED <<ports, cache, call, hist, nMut, active, started, breakOnError, store, persisted, pg, ins>>

\* TypeFromString on the name that StringFromType returned.
ParseNamed ==
  /\ conv.pc = "named"
  /\ ~conv.named.err
  /\ conv' = [conv EXCEPT !.pc = "roundType", !.parsed = TypeFromString(conv.named.str)]
  /\ UNCHANGED <<ports, cache, call, hist, nMut, active, started, breakOnError, store, persisted, pg, ins>>

NextTyping == Parse \/ NameParsed \/ Name \/ ParseNamed

\* The conversions applied to every input.
SpecTyping == InitTyping /\ [][NextTyping]_vars

-----------------------------------------------------------------------------
(* Properties of EnsureTable *)

InCall(c) == call[c].pc # "idle"
\* The call is about to return without error.
ReturnsOK(c) == call[c].pc = "ret" /\ ~call[c].err
\* Between Lock and the end of the deferred unlock.
Locked(c) ==
  call[c].pc \in {"gocGet", "gocCreate", "gocInc", "gocVer", "gocUnlock",
                  "getVer", "refetch", "patch", "incr", "merge", "unlock"}
Quiet == \A c \in AllCallers : ~InCall(c)

\* C1: when EnsureTable returns without error, the table exists at the
\* destination, the returned schema has every desired column, and every
\* column of the returned schema is a column of the destination table.
C1_EnsuredOnReturn ==
  \A c \in Callers :
    ReturnsOK(c) =>
      /\ dest[call[c].tbl].exists
      /\ call[c].desired \subseteq Obj(c).cols
      /\ Obj(c).cols \subseteq dest[call[c].tbl].cols

\* A call returns with a schema it widened while the other caller is in the
\* middle of its own call.
C1_Witness ==
  \E c, d \in Callers :
    /\ c # d /\ ReturnsOK(c) /\ hist[c].cur.muts = 1 /\ call[c].diff # {}
    /\ Locked(d) = FALSE /\ call[d].pc = "lock"

\* C2: when two callers (two goroutines of one process, or two processes)
\* have widened the same table, every port call succeeding, the destination
\* holds the desired columns of both, and once all calls are over the counter
\* has moved once per applied CreateTable/PatchTableSchema.
C2_NoLostUpdate ==
  /\ \A c, d \in Callers :
       (ReturnsOK(c) /\ ReturnsOK(d) /\ call[c].tbl = call[d].tbl) =>
         (call[c].desired \cup call[d].desired) \subseteq dest[call[c].tbl].cols
  /\ (\A c \in Callers : call[c].pc \in {"idle", "ret"}) =>
       \A t \in Tables : version[t] = Baseline + nMut[t]

\* Both callers are about to return from overlapping calls, each having
\* patched its own new column into the table that existed before.
C2_Witness ==
  \E c, d \in Callers :
    /\ c # d /\ ReturnsOK(c) /\ ReturnsOK(d)
    /\ hist[c].cur.muts = 1 /\ hist[d].cur.muts = 1
    /\ call[c].diff = {"a"} /\ call[d].diff = {"b"}
    /\ dest["t1"].cols = {"id", "a", "b"}
    /\ nMut["t1"] = 2 /\ version["t1"] = Baseline + 2

\* C3: no PatchTableSchema is issued with a diff computed against a stale
\* view: the diff holds no column the destination table already has.
C3_NoStalePatch ==
  \A c \in Callers :
    call[c].pc = "patch" => call[c].diff \cap dest[call[c].tbl].cols = {}

\* C4: once no call is in progress, the counter equals its baseline plus the
\* number of successful mutations, also when port calls may fail.
C4_VersionCountsMutations ==
  Quiet => \A t \in Tables : version[t] = Baseline + nMut[t]

\* C5: Unlock is invoked for every lock a call acquired before the call
\* returns (getOrCreate's before getOrCreate returns), on every exit path, and
\* outside Lock..unlock a caller owns no lock.
C5_LockReleased ==
  \A c \in Callers :
    /\ call[c].pc = "ret" => hist[c].cur.rel = hist[c].cur.acq
    /\ call[c].pc \in {"save", "diff", "lock"} => hist[c].cur.rel = hist[c].cur.acq
    /\ ~Locked(c) => \A t \in Tables : lockOwner[t] # c

\* A call returns with an error raised under the lock, the lock free again.
C5_Witness ==
  \E c \in Callers :
    /\ call[c].pc = "ret" /\ call[c].err /\ hist[c].cur.acq = 2
    /\ hist[c].cur.muts = 1
    /\ lockOwner[call[c].tbl] = NoOne

\* C6: at most unlockRetryCount Unlock attempts are made for one lock, the
\* lock is abandoned only when the attempt numbered unlockRetryCount fails,
\* an attempt that succeeds is the last, and no attempt, failed or not,
\* changes what the call returns.
C6_BoundedUnlockRetry ==
  /\ [](\A c \in Callers : call[c].retry <= unlockRetryCount)
  /\ [][\A c \in Callers :
          call[c].pc \in {"gocUnlock", "unlock"} =>
            /\ call'[c].err = call[c].err
            /\ Obj(c)' = Obj(c)
            /\ call'[c].pc \in {call[c].pc, AfterUnlock(call[c])}
            /\ (lockOwner'[call[c].tbl] = Leaked) => call[c].retry = unlockRetryCount
            /\ (lockOwner'[call[c].tbl] = NoOne) => call'[c].pc = AfterUnlock(call[c])
            /\ call'[c].retry \in {0, call[c].retry, call[c].retry + 1}]_vars

\* Unlock was given up and the call still returns the schema it patched.
C6_Witness ==
  \E c \in Callers :
    /\ ReturnsOK(c) /\ hist[c].cur.muts = 1
    /\ lockOwner[call[c].tbl] = Leaked

\* C7: with a cache entry that has every desired column, the call returns the
\* looked-up schema in its next step without any port call, leaving the
\* destination, the counter, the lock and the cache as they are.
C7_FastPath ==
  [][\A c \in Callers :
       (/\ call[c].pc = "diff" /\ hist[c].cur.hit
        /\ call[c].desired \subseteq Obj(c).cols
        /\ call'[c].pc # "diff") =>
         /\ call'[c].pc = "ret"
         /\ call'[c].ref = call[c].ref /\ Obj(c)' = Obj(c)
         /\ ~hist'[c].cur.ports
         /\ UNCHANGED <<dest, version, lockOwner, cache>>]_vars

\* A call served from the cache is about to return.
C7_Witness ==
  \E c \in Callers :
    ReturnsOK(c) /\ hist[c].cur.hit /\ ~hist[c].cur.ports /\ call[c].ref = "cache"

\* C8: a call never mutates the destination twice, and a successful call that
\* repeats the desired columns of the process's previous successful call ends
\* with an empty diff, no mutation and no increment.
C8_Idempotent ==
  \A c \in Callers :
    /\ hist[c].cur.muts <= 1
    /\ (ReturnsOK(c) /\ hist[c].cur.again) =>
         /\ call[c].diff = {}
         /\ hist[c].cur.muts = 0
         /\ hist[c].cur.incs = 0

\* C15: when a call that re-fetched the schema under the lock returns without
\* error, the process's cache entry holds the version the call last read or
\* produced and every desired column, so that the same call again is served
\* from the cache.
C15_CacheReplacedOnRefetch ==
  \A c \in Callers :
    (ReturnsOK(c) /\ hist[c].cur.refetched) =>
      LET e == cache[ProcOf(c)][call[c].tbl] IN
      /\ e # Nil
      /\ e.ver = call[c].ver
      /\ call[c].desired \subseteq e.cols

\* C16: no step takes a column from a destination table or drops the table,
\* a diff holds only columns that the schema it is computed against lacks and
\* a patch only adds the columns of its diff,
\* and no step takes a column from a process's cache entry, removes the
\* entry or lowers its version.
C16_ColumnsOnlyGrow ==
  [][/\ \A t \in Tables :
          dest[t].exists => (dest'[t].exists /\ dest[t].cols \subseteq dest'[t].cols)
     /\ \A c \in Callers :
          /\ call'[c].diff # call[c].diff => call'[c].diff \cap Obj(c)'.cols = {}
          /\ (call[c].pc = "patch" /\ call'[c].pc = "incr") =>
                dest'[call[c].tbl].cols = dest[call[c].tbl].cols \cup call[c].diff
     /\ \A p \in Procs, t \in Tables :
          cache[p][t] # Nil =>
            /\ cache'[p][t] # Nil
            /\ cache[p][t].cols \subseteq cache'[p][t].cols
            /\ cache[p][t].ver <= cache'[p][t].ver]_vars

\* The caller's next step writes th.tables (line 47).
WritesMap(c) == call[c].pc = "save"
\* The caller's next step writes the columns and version of the cached
\* schema of its table (lines 103-106).
WritesEntry(c) == call[c].pc = "merge" /\ call[c].ref = "cache"
\* The caller's next step reads the cached schema of its table: its columns
\* (line 50) or its version (line 73).
ReadsEntry(c) == call[c].pc \in {"diff", "getVer"} /\ call[c].ref = "cache"

\* C17: no two goroutines of one process are at the same time about to
\* access the cache map, or the cached schema of one table, one of them
\* writing: nothing orders two such steps, so they may run at once.
C17_CacheAccessSerialized ==
  \A c, d \in Callers :
    (c # d /\ ProcOf(c) = ProcOf(d)) =>
      /\ ~(WritesMap(c) /\ WritesMap(d))
      /\ ~(/\ WritesEntry(c) /\ call[d].tbl = call[c].tbl
           /\ (ReadsEntry(d) \/ WritesEntry(d)))

\* C18: a caller between Lock and the end of its unlock owns the lock of its
\* table, so at most one caller is there for a table; the destination and
\* the counter of a table change only in a step of the owner of its lock;
\* CreateTable is issued only for a table that does not exist; the counter
\* moves up by one at a time; and every mutation has obtained its counter
\* value when its caller leaves the lock.
C18_SerializedMutations ==
  [][/\ \A c \in Callers :
          /\ Locked(c) => lockOwner[call[c].tbl] = c
          /\ (call[c].pc = "gocCreate" /\ call'[c].pc = "gocInc") =>
                ~dest[call[c].tbl].exists
          /\ (Locked(c) /\ ~Locked(c)') => hist[c].cur.incs = hist[c].cur.muts
     /\ \A c, d \in Callers :
          (c # d /\ Locked(c) /\ Locked(d)) => call[c].tbl # call[d].tbl
     /\ \A t \in Tables :
          /\ version'[t] \in {version[t], version[t] + 1}
          /\ (dest'[t] # dest[t] \/ version'[t] # version[t]) =>
                \E c \in Callers :
                  /\ lockOwner[t] = c /\ call[c].tbl = t
                  /\ call[c].pc \in {"gocCreate", "gocInc", "patch", "incr"}
                  /\ call'[c].pc # call[c].pc
                  /\ (version'[t] # version[t]) =>
                       (hist[c].cur.muts = 1 /\ call'[c].pc \in {"gocUnlock", "merge"})]_vars

\* C19: in every state the columns of a process's cached schema are columns
\* of the destination table and the cached version is not above the table's
\* counter; and no step of a call from CreateTable or PatchTableSchema up to
\* IncrementVersion, failed or not, changes the cache.
C19_CacheWithinDestination ==
  /\ [](\A p \in Procs, t \in Tables :
          cache[p][t] # Nil =>
            /\ dest[t].exists
            /\ cache[p][t].cols \subseteq dest[t].cols
            /\ cache[p][t].ver <= version[t])
  /\ [][\A c \in Callers :
          (/\ call[c].pc \in {"gocCreate", "gocInc", "patch", "incr"}
           /\ call'[c].pc # call[c].pc) => cache' = cache]_vars

\* IncrementVersion failed after a successful patch: the call returns its
\* error and the cache entry is the one from before the patch.
C19_Witness ==
  \E c \in Callers :
    /\ call[c].pc = "ret" /\ call[c].err
    /\ hist[c].cur.muts = 1 /\ hist[c].cur.incs = 0 /\ hist[c].cur.hit
    /\ cache[ProcOf(c)][call[c].tbl] # Nil
    /\ cache[ProcOf(c)][call[c].tbl].cols # dest[call[c].tbl].cols
    /\ cache[ProcOf(c)][call[c].tbl].ver = version[call[c].tbl]

\* The caller has requested a lock and not got it yet.
Waiting(c) == call[c].pc \in {"gocLock", "lock"}

\* C20: a caller owns no lock when it requests one, nor outside Lock..unlock:
\* not between getOrCreate and the lock of line 61, not when Store goes to its
\* next row-group or opens its transaction, not when Insert coerces and
\* inserts; while a caller waits for a lock some caller can take a step; and
\* every caller waiting for a lock comes to own it.
C20_NoDeadlock ==
  /\ [](\A c \in AllCallers :
          /\ (Waiting(c) \/ ~Locked(c)) => \A t \in Tables : lockOwner[t] # c
          /\ Waiting(c) => \E d \in AllCallers : ENABLED (Acquire(d) \/ Proceed(d)))
  /\ [](\A c \in StoreCallers :
          store[c].pc \in {"typing", "openTx", "insert", "commit", "ret"} => ~InCall(c))
  /\ [](\A c \in InsertCallers :
          ins[c].pc \in {"typing", "insert", "ret"} => ~InCall(c))
  /\ \A c \in LiveCallers : Waiting(c) ~> (lockOwner[call[c].tbl] = c)

\* Store waits for the lock of its second row-group's table while the caller
\* of the other process holds the lock of the first one's, and the streaming
\* worker has yet to begin.
C20_Witness ==
  \E c \in StoreCallers, d \in Callers :
    /\ store[c].pc = "ensure" /\ store[c].gi = 2 /\ Waiting(c)
    /\ lockOwner[call[c].tbl] = NoOne
    /\ Locked(d) /\ lockOwner[call[d].tbl] = d

-----------------------------------------------------------------------------
(* Properties of Store *)

\* C9: with breakOnError, a failed insert rolls the transaction back: nothing
\* of the call is stored, no insert follows, no commit is issued, and Store
\* returns the total row count of the payload with the insert error.
C9_BreakOnError ==
  \A c \in StoreCallers :
    (breakOnError /\ store[c].failed # {}) =>
      /\ store[c].pc = "ret"
      /\ store[c].err = "insert"
      /\ store[c].count = Cardinality(RowsOf(store[c].groups))
      /\ store[c].tx = {} /\ persisted[c] = {}
      /\ store[c].rollbacks = 1 /\ store[c].commits = 0
      /\ Cardinality(store[c].failed) = 1
      /\ \A r \in RowsOf(store[c].groups) \ store[c].tried :
           \A x \in store[c].failed : x[1] < r[1] \/ (x[1] = r[1] /\ x[2] < r[2])

\* The second row-group's insert fails after rows of the first were inserted.
C9_Witness ==
  \E c \in StoreCallers :
    /\ breakOnError /\ store[c].pc = "ret"
    /\ \E x \in store[c].failed : x[1] = 2
    /\ Cardinality(store[c].tried) >= 2
    /\ store[c].tried # RowsOf(store[c].groups)

\* C10: without breakOnError a failed insert is skipped: once the inserts are
\* over every row was attempted, the commit is issued without any rollback,
\* a successful commit stores exactly the rows whose insert succeeded, and
\* Store returns the total row count with the commit's error or none.
C10_SkipOnError ==
  \A c \in StoreCallers :
    ~breakOnError =>
      /\ store[c].err # "insert"
      /\ store[c].rollbacks = 0
      /\ (store[c].pc = "commit" \/ store[c].commits = 1) =>
            store[c].tried = RowsOf(store[c].groups)
      /\ (store[c].pc = "ret" /\ store[c].err \in {"none", "commit"}) =>
            /\ store[c].commits = 1
            /\ store[c].count = Cardinality(RowsOf(store[c].groups))
      /\ (store[c].pc = "ret" /\ store[c].err = "none") =>
            /\ persisted[c] = RowsOf(store[c].groups) \ store[c].failed
            /\ Cardinality(persisted[c]) =
                 store[c].count - Cardinality(store[c].failed)

\* A payload of several rows is committed with one row skipped.
C10_Witness ==
  \E c \in StoreCallers :
    /\ ~breakOnError /\ store[c].pc = "ret" /\ store[c].err = "none"
    /\ Cardinality(store[c].failed) = 1
    /\ Cardinality(persisted[c]) >= 2

\* C11: a failure of EnsureTable or of the typing of any row-group ends Store
\* with the total row count and that error, with or without breakOnError: no
\* transaction was opened, no row was inserted or stored; and a transaction is
\* opened only after every row-group passed EnsureTable and typing.
C11_AbortBeforeTx ==
  \A c \in StoreCallers :
    /\ store[c].err \in {"ensure", "typing"} =>
         /\ store[c].pc = "ret"
         /\ store[c].count = Cardinality(RowsOf(store[c].groups))
         /\ store[c].opened = 0
         /\ store[c].tried = {} /\ store[c].tx = {} /\ persisted[c] = {}
         /\ store[c].commits = 0 /\ store[c].rollbacks = 0
    /\ (store[c].pc \in {"openTx", "insert", "commit"} \/ store[c].opened > 0
          \/ store[c].tried # {}) =>
         /\ store[c].ensured = 1..Len(store[c].groups)
         /\ store[c].typed = 1..Len(store[c].groups)
    /\ store[c].tried # {} => store[c].opened = 1

\* Without breakOnError, EnsureTable fails for the second row-group after the
\* first one passed EnsureTable and typing.
C11_Witness ==
  \E c \in StoreCallers :
    /\ ~breakOnError /\ store[c].pc = "ret" /\ store[c].err = "ensure"
    /\ store[c].gi = 2 /\ store[c].typed = {1}
    /\ store[c].count = 1 + MaxRows

-----------------------------------------------------------------------------
(* Properties of Close and Insert *)

\* C12: when Close has returned, adapter.Close was called, the streaming
\* worker of a storage in stream mode was stopped, and the returned error
\* reports exactly the calls that failed.
C12_CloseBoth ==
  pg.pc = "closed" =>
    /\ pg.adapterCloses = 1
    /\ pg.streamMode => pg.workerCloses = 1
    /\ pg.err = pg.failed

\* C13: the record is coerced and inserted only after EnsureTable returned
\* without error, its locks released, and after the coercion succeeded; the
\* EnsureTable call made at most one mutation with its one increment, and
\* exactly one when the table lacked a desired column and no other caller
\* mutated the table meanwhile; any error ends Insert without an insert.
C13_InsertAfterEnsure ==
  \A c \in InsertCallers :
    /\ (ins[c].pc \in {"typing", "insert"} \/ ins[c].typed > 0 \/ ins[c].inserted > 0) =>
         /\ ins[c].err \in {"none", "typing", "insert"}
         /\ call[c].pc = "idle"
         /\ \A t \in Tables : lockOwner[t] # c
         /\ ins[c].ens.rel = ins[c].ens.acq
         /\ ins[c].ens.muts <= 1
         /\ ins[c].ens.incs = ins[c].ens.muts
         /\ ins[c].ens.muts = 1 => ins[c].ens.acq \in {1, 2}
         /\ (ins[c].lacked /\ ins[c].mutd = ins[c].ens.muts) => ins[c].ens.muts = 1
         /\ ins[c].tbl \in Tables /\ dest[ins[c].tbl].exists
    /\ ins[c].inserted <= 1 /\ ins[c].typed <= 1
    /\ ins[c].inserted = 1 => (ins[c].typed = 1 /\ ins[c].err = "none")
    /\ ins[c].err # "none" => (ins[c].pc = "ret" /\ ins[c].inserted = 0)

\* The worker's record is inserted after its EnsureTable call looked the
\* table up under one lock and patched the missing column under the next.
C13_Witness ==
  \E c \in InsertCallers :
    /\ ins[c].inserted = 1 /\ ins[c].lacked
    /\ ins[c].ens.muts = 1 /\ ins[c].ens.incs = 1 /\ ins[c].ens.acq = 2

-----------------------------------------------------------------------------
(* Properties of typing.DataType *)

\* C14: TypeFromString accepts every valid name, in any case and with white
\* space around it, and StringFromType of its result is the name trimmed and
\* lower-cased; it returns an error for any other string.  StringFromType
\* names INT64, FLOAT64, STRING and TIMESTAMP, TypeFromString of the name is
\* the DataType again; StringFromType returns an error for UNKNOWN.
C14_RoundTrip ==
  /\ conv.pc \in {"parsed", "roundString"} =>
       /\ conv.s \in ValidInputs => ~conv.parsed.err
       /\ conv.s \in InvalidInputs =>
            (conv.parsed.err /\ conv.parsed.type = UNKNOWN)
  /\ conv.pc = "roundString" =>
       /\ ~conv.named.err
       /\ conv.named.str = ToLower(TrimSpace(conv.s))
       /\ conv.named.str \in ExternalNames
  /\ conv.pc \in {"named", "roundType"} =>
       (conv.named.err <=> conv.t \notin {INT64, FLOAT64, STRING_TYPE, TIMESTAMP})
  /\ conv.pc = "roundType" =>
       (~conv.parsed.err /\ conv.parsed.type = conv.t)

\* A name in mixed case between white space went through both conversions.
C14_Witness ==
  /\ conv.pc = "roundString"
  /\ conv.s = <<"\t", "D", "o", "u", "B", "l", "e", " ">>
  /\ conv.named.str = NameDouble

====
